---- MODULE Spec2Model ----
(***************************************************************************)
(* SafeScanX client-side scan orchestrator: the App component's state,     *)
(* the FileUpload component that hands it a fingerprinted file, and every  *)
(* suspension point of performScan as one step of a per-invocation process.*)
(***************************************************************************)
EXTENDS Integers, Sequences, FiniteSets, TLC

\* Number of file selections that pass validation (each is one handleFileSelect
\* call of FileUpload and, if hashing succeeds, one performScan invocation).
MaxScans == 2

Slots == 1..MaxScans

\* JavaScript null (useState<... | null>(null)).
Null == [isNull |-> TRUE]

(***************************************************************************)
(* Files and fingerprinting (src/src/utils/fileUtils.ts)                   *)
(***************************************************************************)

MAX_FILE_SIZE == 100 * 1024 * 1024

\* Number of bytes crypto.subtle.digest('SHA-256', ...) returns.
DigestLen == 32

HexDigits == <<"0", "1", "2", "3", "4", "5", "6", "7",
               "8", "9", "a", "b", "c", "d", "e", "f">>

\* Number.prototype.toString(16) on a byte: no leading zero.
ToString16(b) ==
    IF b < 16 THEN HexDigits[b + 1]
    ELSE HexDigits[(b \div 16) + 1] \o HexDigits[(b % 16) + 1]

\* The byte's hex text left as toString(16) gives it.
PadStartOmitted(str) == str

\* String.prototype.padStart(2, '0').
PadStart2(str) == IF Len(str) < 2 THEN "0" \o str ELSE str

RECURSIVE Join(_)
\* Array.prototype.join('').
Join(strs) == IF strs = <<>> THEN "" ELSE Head(strs) \o Join(Tail(strs))

\* hashArray.map(b => b.toString(16).padStart(2, '0')).join('')
HashHex(hashArray) ==
    Join([i \in 1..Len(hashArray) |-> PadStart2(ToString16(hashArray[i]))])

\* The files a user can pick.  digest is what crypto.subtle.digest yields for
\* the file's bytes; bufferReadable says whether file.arrayBuffer() resolves,
\* textReadable whether FileReader.readAsText fires onload (else onerror).
TextFile ==
    [name |-> "hello.txt", size |-> 12, text |-> "hello world!",
     bufferReadable |-> TRUE, textReadable |-> TRUE,
     digest |-> [i \in 1..DigestLen |-> (i * 7) % 256]]

BinaryFile ==
    [name |-> "tool.exe", size |-> MAX_FILE_SIZE, text |-> "",
     bufferReadable |-> TRUE, textReadable |-> FALSE,
     digest |-> [i \in 1..DigestLen |-> (255 - i * 5) % 256]]

LockedFile ==
    [name |-> "locked.bin", size |-> 1, text |-> "",
     bufferReadable |-> FALSE, textReadable |-> FALSE,
     digest |-> [i \in 1..DigestLen |-> 0]]

HugeFile ==
    [name |-> "huge.iso", size |-> MAX_FILE_SIZE + 1, text |-> "",
     bufferReadable |-> TRUE, textReadable |-> FALSE,
     digest |-> [i \in 1..DigestLen |-> i]]

Files == {TextFile, BinaryFile, LockedFile, HugeFile}

\* Byte buffers handed to calculateSHA256 on its own, each with the SHA-256
\* digest crypto.subtle.digest yields for it: the empty buffer, "a", "c" (one
\* bit away from "a") and "abc".
Buffers ==
    {[bytes |-> <<>>, bufferReadable |-> TRUE,
      digest |-> <<227, 176, 196, 66, 152, 252, 28, 20, 154, 251, 244, 200, 153,
                   111, 185, 36, 39, 174, 65, 228, 100, 155, 147, 76, 164, 149,
                   153, 27, 120, 82, 184, 85>>],
     [bytes |-> <<97>>, bufferReadable |-> TRUE,
      digest |-> <<202, 151, 129, 18, 202, 27, 189, 202, 250, 194, 49, 179, 154,
                   35, 220, 77, 167, 134, 239, 248, 20, 124, 78, 114, 185, 128,
                   119, 133, 175, 238, 72, 187>>],
     [bytes |-> <<99>>, bufferReadable |-> TRUE,
      digest |-> <<46, 125, 44, 3, 169, 80, 122, 226, 101, 236, 245, 181, 53,
                   104, 133, 165, 51, 147, 162, 2, 157, 36, 19, 148, 153, 114,
                   101, 161, 162, 90, 239, 198>>],
     [bytes |-> <<97, 98, 99>>, bufferReadable |-> TRUE,
      digest |-> <<186, 120, 22, 191, 143, 1, 207, 234, 65, 65, 64, 222, 93, 174,
                   34, 35, 176, 3, 97, 163, 150, 23, 122, 156, 180, 16, 255, 97,
                   242, 0, 21, 173>>]}

\* Number of calculateSHA256 calls made on the two buffers under comparison.
MaxFingerprints == 3

\* calculateSHA256 once file.arrayBuffer() and digest() have resolved.
calculateSHA256(file) == HashHex(file.digest)

\* validateFile with the limit itself refused (>= for >).
validateFileInclusive(file) ==
    IF file.size >= MAX_FILE_SIZE
    THEN "File size exceeds the maximum limit of 100 MB"
    ELSE ""

\* validateFile: the error text, or "" for null (the caller only tests its
\* truthiness).  formatFileSize(MAX_FILE_SIZE) is "100 MB".
validateFile(file) ==
    IF file.size > MAX_FILE_SIZE
    THEN "File size exceeds the maximum limit of 100 MB"
    ELSE ""

(***************************************************************************)
(* Environment: import.meta.env and the remote service                     *)
(***************************************************************************)

\* undefined (variable not set) is the empty string here: both are falsy.
UrlValues == {"", "https://your-project-ref.supabase.co", "https://proj.supabase.co"}
KeyValues == {"", "your-anon-key-here", "anon-key"}

\* Values a rejected promise can carry: Error objects (with their message,
\* possibly empty) and a value that is not an Error.
FetchRejections ==
    {[isError |-> TRUE, message |-> "Failed to fetch"],
     [isError |-> TRUE, message |-> ""],
     [isError |-> FALSE, message |-> "offline"]}

JsonRejections ==
    {[isError |-> TRUE, message |-> "Unexpected token < in JSON"]}

\* Responses fetch can resolve with (ok is status in 200..299).
Responses ==
    {[ok |-> TRUE, statusText |-> "OK"],
     [ok |-> FALSE, statusText |-> "Internal Server Error"],
     [ok |-> FALSE, statusText |-> ""]}

VerdictSafe == [overallVerdict |-> "safe", threatScore |-> 0]

\* Envelopes response.json() can resolve with; hasError is whether the error
\* key is present.  The body is whatever the service sends: the successful
\* one also echoes an identity, and not the one that was submitted.
Envelopes ==
    {[success |-> TRUE, scanId |-> "abc", result |-> VerdictSafe,
      hasError |-> FALSE, error |-> "",
      sha256Hash |-> "00ff", fileName |-> "other.bin", fileSize |-> 0],
     [success |-> FALSE, scanId |-> "", result |-> Null,
      hasError |-> TRUE, error |-> "bad request"],
     [success |-> FALSE, scanId |-> "", result |-> Null,
      hasError |-> TRUE, error |-> ""],
     [success |-> FALSE, scanId |-> "", result |-> Null,
      hasError |-> FALSE, error |-> ""]}

(***************************************************************************)
(* State                                                                   *)
(***************************************************************************)

VARIABLES
    appState,        \* App: 'upload' | 'scanning' | 'results'
    currentFile,     \* App: FileUpload record or Null
    scanProgress,    \* App: the ScanProgress shown
    scanResults,     \* App: CompleteScanData or Null
    selectedFile,    \* mounted FileUpload: File or Null
    isHashing,       \* mounted FileUpload
    error,           \* mounted FileUpload: upload error text, "" for null
    fuOwner,         \* slot whose handleFileSelect runs in the mounted FileUpload
    supabaseUrl,     \* import.meta.env.VITE_SUPABASE_URL
    supabaseAnonKey, \* import.meta.env.VITE_SUPABASE_ANON_KEY
    pc,              \* per slot: where its handleFileSelect/performScan stands
    file,            \* per slot: FileUpload.handleFileSelect's argument
    fileUpload,      \* per slot: performScan's argument
    fileContent,     \* per slot: performScan's local
    response,        \* per slot: performScan's local (what fetch resolved with)
    scanData,        \* per slot: performScan's local (parsed envelope)
    events,          \* per slot: the ScanProgress values it has set, in order
    requests,        \* per slot: the request bodies it has handed to fetch
    stored,          \* per slot: the records it has passed to setScanResults
    buffers,         \* the two buffers calculateSHA256 is compared on
    fingerprints     \* the calculateSHA256 calls made on them: buffer index, result

appVars == <<appState, currentFile, scanProgress, scanResults>>
fuVars == <<selectedFile, isHashing, error, fuOwner>>
envVars == <<supabaseUrl, supabaseAnonKey>>
localVars == <<file, fileUpload, fileContent, response, scanData>>
logVars == <<events, requests, stored>>
hashVars == <<buffers, fingerprints>>
vars == <<appVars, fuVars, envVars, pc, localVars, logVars, hashVars>>

\* useState initial value, and handleNewScan's reset value.
InitialProgress ==
    [stage |-> "uploading", progress |-> 0, message |-> "Preparing to scan..."]

Init ==
    /\ appState = "upload"
    /\ currentFile = Null
    /\ scanProgress = InitialProgress
    /\ scanResults = Null
    /\ selectedFile = Null
    /\ isHashing = FALSE
    /\ error = ""
    /\ fuOwner = 0
    /\ supabaseUrl \in UrlValues
    /\ supabaseAnonKey \in KeyValues
    /\ pc = [s \in Slots |-> "idle"]
    /\ file = [s \in Slots |-> Null]
    /\ fileUpload = [s \in Slots |-> Null]
    /\ fileContent = [s \in Slots |-> ""]
    /\ response = [s \in Slots |-> Null]
    /\ scanData = [s \in Slots |-> Null]
    /\ events = [s \in Slots |-> <<>>]
    /\ requests = [s \in Slots |-> <<>>]
    /\ stored = [s \in Slots |-> <<>>]
    /\ buffers = <<>>
    /\ fingerprints = <<>>

\* The application untouched, and two buffers to fingerprint.
HashInit ==
    /\ appState = "upload"
    /\ currentFile = Null
    /\ scanProgress = InitialProgress
    /\ scanResults = Null
    /\ selectedFile = Null
    /\ isHashing = FALSE
    /\ error = ""
    /\ fuOwner = 0
    /\ supabaseUrl \in UrlValues
    /\ supabaseAnonKey \in KeyValues
    /\ pc = [s \in Slots |-> "idle"]
    /\ file = [s \in Slots |-> Null]
    /\ fileUpload = [s \in Slots |-> Null]
    /\ fileContent = [s \in Slots |-> ""]
    /\ response = [s \in Slots |-> Null]
    /\ scanData = [s \in Slots |-> Null]
    /\ events = [s \in Slots |-> <<>>]
    /\ requests = [s \in Slots |-> <<>>]
    /\ stored = [s \in Slots |-> <<>>]
    /\ buffers \in Buffers \X Buffers
    /\ fingerprints = <<>>

\* One call of calculateSHA256 on buffer i, run to its resolution.
Fingerprint(i) ==
    /\ Len(fingerprints) < MaxFingerprints
    /\ buffers[i].bufferReadable
    /\ fingerprints' = Append(fingerprints,
                              [buffer |-> i, hash |-> calculateSHA256(buffers[i])])
    /\ UNCHANGED <<appVars, fuVars, envVars, pc, localVars, logVars, buffers>>

HashNext == \E i \in 1..2 : Fingerprint(i)

HashSpec == HashInit /\ [][HashNext]_vars

(***************************************************************************)
(* FileUpload component (src/src/components/FileUpload.tsx)                *)
(***************************************************************************)

\* The lowest slot not used yet: the next handleFileSelect call.
FreeSlot(s) == pc[s] = "idle" /\ \A t \in Slots : t < s => pc[t] # "idle"

\* React discards the component's state when App stops rendering it.
FileUploadUnmounted ==
    /\ selectedFile' = Null
    /\ isHashing' = FALSE
    /\ error' = ""
    /\ fuOwner' = 0

\* handleFileSelect up to its await: the dropzone (and its input) is rendered
\* only while no file is selected, and isScanning is always false.
SelectFile(f) ==
    /\ appState = "upload"
    /\ selectedFile = Null
    /\ \/ /\ validateFile(f) # ""
          /\ error' = validateFile(f)
          /\ UNCHANGED <<selectedFile, isHashing, fuOwner, pc, file>>
       \/ /\ validateFile(f) = ""
          /\ \E s \in Slots :
                /\ FreeSlot(s)
                /\ pc' = [pc EXCEPT ![s] = "hashing"]
                /\ file' = [file EXCEPT ![s] = f]
                /\ fuOwner' = s
          /\ error' = ""
          /\ selectedFile' = f
          /\ isHashing' = TRUE
    /\ UNCHANGED <<appVars, envVars, hashVars, fileUpload, fileContent, response, scanData, logVars>>

\* The catch block only logs: no upload error is set.
HashRejectedSilent(s) ==
    /\ pc[s] = "hashing"
    /\ ~file[s].bufferReadable
    /\ pc' = [pc EXCEPT ![s] = "hashFailed"]
    /\ IF fuOwner = s
       THEN /\ isHashing' = FALSE
            /\ fuOwner' = 0
            /\ UNCHANGED <<selectedFile, error>>
       ELSE UNCHANGED fuVars
    /\ UNCHANGED <<appVars, envVars, hashVars, localVars, logVars>>

\* calculateSHA256 rejects: the catch and finally blocks of handleFileSelect.
\* Setting state on an unmounted component changes nothing.
HashRejected(s) ==
    /\ pc[s] = "hashing"
    /\ ~file[s].bufferReadable
    /\ pc' = [pc EXCEPT ![s] = "hashFailed"]
    /\ IF fuOwner = s
       THEN /\ error' = "Error processing file. Please try again."
            /\ isHashing' = FALSE
            /\ fuOwner' = 0
            /\ UNCHANGED selectedFile
       ELSE UNCHANGED fuVars
    /\ UNCHANGED <<appVars, envVars, hashVars, localVars, logVars>>

clearSelection ==
    /\ appState = "upload"
    /\ selectedFile # Null
    /\ ~isHashing
    /\ selectedFile' = Null
    /\ error' = ""
    /\ UNCHANGED <<isHashing, fuOwner, appVars, envVars, hashVars, pc, localVars, logVars>>

(***************************************************************************)
(* App component (src/src/App.tsx): performScan                            *)
(***************************************************************************)

UploadingEvent ==
    [stage |-> "uploading", progress |-> 10, message |-> "File uploaded successfully"]
HashingEvent ==
    [stage |-> "hashing", progress |-> 20, message |-> "SHA-256 hash generated"]
HashCheckEvent ==
    [stage |-> "hash-check", progress |-> 30,
     message |-> "Checking hash against threat databases..."]
HeuristicEvent ==
    [stage |-> "heuristic", progress |-> 50, message |-> "Performing heuristic analysis..."]
\* Stage 5 pasted from stage 4 with only the percentage edited.
StaticEventPastedStage ==
    [stage |-> "heuristic", progress |-> 70,
     message |-> "Analyzing file content for malicious patterns..."]
StaticEvent ==
    [stage |-> "static", progress |-> 70,
     message |-> "Analyzing file content for malicious patterns..."]
BehavioralEvent ==
    [stage |-> "behavioral", progress |-> 85,
     message |-> "Querying behavioral analysis databases..."]
CompleteEvent ==
    [stage |-> "complete", progress |-> 100, message |-> "Analysis complete!"]

\* setScanProgress(ev) called by invocation s.
Emit(s, ev) ==
    /\ scanProgress' = ev
    /\ events' = [events EXCEPT ![s] = Append(@, ev)]

\* new Error(message)
NewError(message) == [isError |-> TRUE, message |-> message]

\* error instanceof Error ? error.message : 'An error occurred during scanning'
CatchMessage(thrown) ==
    IF thrown.isError THEN thrown.message ELSE "An error occurred during scanning"

\* The catch block of performScan; the invocation then returns.
Catch(s, thrown) ==
    /\ Emit(s, [stage |-> "error", progress |-> 0, message |-> CatchMessage(thrown)])
    /\ pc' = [pc EXCEPT ![s] = "failed"]

\* calculateSHA256 resolves in FileUpload.handleFileSelect, which calls
\* onFileSelect = App.handleFileSelect, which runs performScan up to its first
\* await.  App now renders ScanProgress instead of FileUpload.
HashResolved(s) ==
    /\ pc[s] = "hashing"
    /\ file[s].bufferReadable
    /\ LET fu == [file |-> file[s], sha256Hash |-> calculateSHA256(file[s]),
                  uploadProgress |-> 0]
       IN /\ fileUpload' = [fileUpload EXCEPT ![s] = fu]
          /\ currentFile' = fu
    /\ appState' = "scanning"
    /\ Emit(s, UploadingEvent)
    /\ pc' = [pc EXCEPT ![s] = "delay1"]
    /\ FileUploadUnmounted
    /\ UNCHANGED <<scanResults, envVars, hashVars, file, fileContent, response, scanData, requests,
                   stored>>

\* A pacing delay resolves and the next setScanProgress runs.
Pace(s, from, ev, to) ==
    /\ pc[s] = from
    /\ Emit(s, ev)
    /\ pc' = [pc EXCEPT ![s] = to]
    /\ UNCHANGED <<appState, currentFile, scanResults, fuVars, envVars, hashVars, localVars,
                   requests, stored>>

Delay1Done(s) == Pace(s, "delay1", HashingEvent, "delay2")

\* The second delay resolves; readFileAsText is called and awaited.
Delay2Done(s) ==
    /\ pc[s] = "delay2"
    /\ pc' = [pc EXCEPT ![s] = "readText"]
    /\ UNCHANGED <<appVars, fuVars, envVars, hashVars, localVars, logVars>>

\* The read without its own try/catch: a rejection lands in the outer catch.
ReadTextDoneFatal(s) ==
    /\ pc[s] = "readText"
    /\ \/ /\ fileUpload[s].file.textReadable
          /\ fileContent' = [fileContent EXCEPT ![s] = fileUpload[s].file.text]
          /\ scanProgress' = HashCheckEvent
          /\ events' = [events EXCEPT ![s] = Append(@, HashCheckEvent)]
          /\ pc' = [pc EXCEPT ![s] = "delay3"]
       \/ /\ ~fileUpload[s].file.textReadable
          /\ UNCHANGED fileContent
          /\ scanProgress' = [stage |-> "error", progress |-> 0,
                              message |-> "An error occurred during scanning"]
          /\ events' = [events EXCEPT ![s] = Append(@, scanProgress')]
          /\ pc' = [pc EXCEPT ![s] = "failed"]
    /\ UNCHANGED <<appState, currentFile, scanResults, fuVars, envVars, hashVars, file,
                   fileUpload, response, scanData, requests, stored>>

\* readFileAsText settles: onload resolves with the text, onerror rejects and
\* the inner catch leaves fileContent = ''.
ReadTextDone(s) ==
    /\ pc[s] = "readText"
    /\ \/ /\ fileUpload[s].file.textReadable
          /\ fileContent' = [fileContent EXCEPT ![s] = fileUpload[s].file.text]
       \/ /\ ~fileUpload[s].file.textReadable
          /\ fileContent' = [fileContent EXCEPT ![s] = ""]
    /\ Emit(s, HashCheckEvent)
    /\ pc' = [pc EXCEPT ![s] = "delay3"]
    /\ UNCHANGED <<appState, currentFile, scanResults, fuVars, envVars, hashVars, file,
                   fileUpload, response, scanData, requests, stored>>

\* The check without its two placeholder comparisons.
ConfigInvalidMissingOnly(url, key) == url = "" \/ key = ""

\* !supabaseUrl || supabaseUrl === '...' || !supabaseAnonKey || supabaseAnonKey === '...'
ConfigInvalid(url, key) ==
    \/ url = ""
    \/ url = "https://your-project-ref.supabase.co"
    \/ key = ""
    \/ key = "your-anon-key-here"

ConfigErrorMessage ==
    "Supabase configuration missing or using placeholder values. "
    \o "Please update your .env file with actual Supabase URL and anon key."

Delay3Done(s) == Pace(s, "delay3", HeuristicEvent, "delay4")

\* The configuration check made up front, before the static stage.
Delay4DoneCheckingConfig(s) ==
    /\ pc[s] = "delay4"
    /\ \/ /\ ConfigInvalid(supabaseUrl, supabaseAnonKey)
          /\ Catch(s, NewError(ConfigErrorMessage))
       \/ /\ ~ConfigInvalid(supabaseUrl, supabaseAnonKey)
          /\ Emit(s, StaticEvent)
          /\ pc' = [pc EXCEPT ![s] = "delay5"]
    /\ UNCHANGED <<appState, currentFile, scanResults, fuVars, envVars, hashVars, localVars,
                   requests, stored>>

Delay4Done(s) == Pace(s, "delay4", StaticEvent, "delay5")
\* The body handed to fetch.
RequestBody(s) ==
    [sha256Hash |-> fileUpload[s].sha256Hash,
     fileName |-> fileUpload[s].file.name,
     fileSize |-> fileUpload[s].file.size,
     fileContent |-> fileContent[s]]

\* The fetch issued one stage early, when the fifth delay resolves.
Delay5DoneFetchingEarly(s) ==
    /\ pc[s] = "delay5"
    /\ requests' = [requests EXCEPT ![s] = Append(@, RequestBody(s))]
    /\ pc' = [pc EXCEPT ![s] = "delay6"]
    /\ UNCHANGED <<appVars, fuVars, envVars, hashVars, localVars, events, stored>>

Delay5Done(s) == Pace(s, "delay5", BehavioralEvent, "delay6")

\* fetch(apiUrl, ...) is called and awaited.
CallFetch(s) ==
    /\ requests' = [requests EXCEPT ![s] = Append(@, RequestBody(s))]
    /\ pc' = [pc EXCEPT ![s] = "fetch"]
    /\ UNCHANGED <<appVars, events>>

\* The sixth delay resolves: the configuration check, then the fetch call.
Delay6Done(s) ==
    /\ pc[s] = "delay6"
    /\ \/ /\ ConfigInvalid(supabaseUrl, supabaseAnonKey)
          /\ Catch(s, NewError(ConfigErrorMessage))
          /\ UNCHANGED <<appState, currentFile, scanResults, requests>>
       \/ /\ ~ConfigInvalid(supabaseUrl, supabaseAnonKey)
          /\ CallFetch(s)
    /\ UNCHANGED <<fuVars, envVars, hashVars, localVars, stored>>

\* The status check left out.
ResponseNeverRejected(resp) == FALSE

\* if (!response.ok) throw ...
ResponseRejected(resp) == ~resp.ok

\* `Scan failed: ${response.statusText}`
StatusErrorMessage(resp) == "Scan failed: " \o resp.statusText

\* fetch resolves with a response: the status check, then response.json()
\* is called and awaited.
FetchResolved(s, resp) ==
    /\ pc[s] = "fetch"
    /\ response' = [response EXCEPT ![s] = resp]
    /\ \/ /\ ResponseRejected(resp)
          /\ Catch(s, NewError(StatusErrorMessage(resp)))
       \/ /\ ~ResponseRejected(resp)
          /\ pc' = [pc EXCEPT ![s] = "json"]
          /\ UNCHANGED <<scanProgress, events>>
    /\ UNCHANGED <<appState, currentFile, scanResults, fuVars, envVars, hashVars, file,
                   fileUpload, fileContent, scanData, requests, stored>>

\* A rejected fetch is tried once more before giving up.
OnFetchRejectedRetryOnce(s, thrown) ==
    IF Len(requests[s]) < 2
    THEN /\ requests' = [requests EXCEPT ![s] = Append(@, requests[s][1])]
         /\ UNCHANGED <<pc, scanProgress, events>>
    ELSE /\ scanProgress' = [stage |-> "error", progress |-> 0, message |-> thrown.message]
         /\ events' = [events EXCEPT ![s] = Append(@, scanProgress')]
         /\ pc' = [pc EXCEPT ![s] = "failed"]
         /\ UNCHANGED requests

\* What performScan does when the awaited fetch rejects: the throw lands in
\* the catch block.
OnFetchRejected(s, thrown) ==
    /\ Catch(s, thrown)
    /\ UNCHANGED requests

FetchRejected(s, thrown) ==
    /\ pc[s] = "fetch"
    /\ OnFetchRejected(s, thrown)
    /\ UNCHANGED <<appState, currentFile, scanResults, fuVars, envVars, hashVars, localVars,
                   stored>>

\* if (!scanData.success) throw ...
EnvelopeFailed(data) == ~data.success

\* scanData.error without the || fallback.
EnvelopeErrorTextNoFallback(data) == data.error

\* scanData.error || 'Scan failed'
EnvelopeErrorText(data) ==
    IF data.hasError /\ data.error # "" THEN data.error ELSE "Scan failed"

\* response.json() resolves: the envelope check, then stage 7 and the last
\* pacing delay.
JsonResolved(s, data) ==
    /\ pc[s] = "json"
    /\ scanData' = [scanData EXCEPT ![s] = data]
    /\ \/ /\ EnvelopeFailed(data)
          /\ Catch(s, NewError(EnvelopeErrorText(data)))
       \/ /\ ~EnvelopeFailed(data)
          /\ Emit(s, CompleteEvent)
          /\ pc' = [pc EXCEPT ![s] = "delay7"]
    /\ UNCHANGED <<appState, currentFile, scanResults, fuVars, envVars, hashVars, file,
                   fileUpload, fileContent, response, requests, stored>>

\* response.json() rejects (the body is not JSON).
JsonRejected(s, thrown) ==
    /\ pc[s] = "json"
    /\ Catch(s, thrown)
    /\ UNCHANGED <<appState, currentFile, scanResults, fuVars, envVars, hashVars, localVars,
                   requests, stored>>

\* completeScanData spreading the response body over the local identity.
CompleteScanDataFromEcho(s) ==
    [scanId |-> scanData[s].scanId,
     fileName |-> scanData[s].fileName,
     fileSize |-> scanData[s].fileSize,
     sha256Hash |-> scanData[s].sha256Hash,
     result |-> scanData[s].result]

\* completeScanData (scanTimestamp, the wall-clock time of assembly, is left
\* out: nothing reads it).
CompleteScanData(s) ==
    [scanId |-> scanData[s].scanId,
     fileName |-> fileUpload[s].file.name,
     fileSize |-> fileUpload[s].file.size,
     sha256Hash |-> fileUpload[s].sha256Hash,
     result |-> scanData[s].result]

\* The last delay resolves: the record is assembled and stored, and App
\* renders ScanResults.
Delay7Done(s) ==
    /\ pc[s] = "delay7"
    /\ scanResults' = CompleteScanData(s)
    /\ stored' = [stored EXCEPT ![s] = Append(@, CompleteScanData(s))]
    /\ appState' = "results"
    /\ pc' = [pc EXCEPT ![s] = "done"]
    /\ FileUploadUnmounted
    /\ UNCHANGED <<currentFile, scanProgress, envVars, hashVars, localVars, events, requests>>

(***************************************************************************)
(* App component: the user's handlers                                      *)
(***************************************************************************)

\* New Scan without its setAppState('upload').
handleNewScanStayingOnResults ==
    /\ appState = "results"
    /\ scanResults # Null
    /\ currentFile' = Null
    /\ scanResults' = Null
    /\ scanProgress' = InitialProgress
    /\ UNCHANGED <<appState, fuVars, envVars, hashVars, pc, localVars, logVars>>

\* The ScanResults view, which holds the New Scan button, is rendered only
\* when appState === 'results' && scanResults.
handleNewScan ==
    /\ appState = "results"
    /\ scanResults # Null
    /\ currentFile' = Null
    /\ scanResults' = Null
    /\ scanProgress' = InitialProgress
    /\ appState' = "upload"
    /\ UNCHANGED <<fuVars, envVars, hashVars, pc, localVars, logVars>>

\* The logo click resets the result as New Scan does.
handleBackToScanClearingResults ==
    /\ appState' = "upload"
    /\ scanResults' = Null
    /\ UNCHANGED <<currentFile, scanProgress, fuVars, envVars, hashVars, pc, localVars, logVars>>

\* The logo click cancels the scans that have not settled.
handleBackToScanAborting ==
    /\ appState' = "upload"
    /\ pc' = [s \in Slots |->
                IF pc[s] \in {"idle", "hashing", "hashFailed", "done", "failed"}
                THEN pc[s] ELSE "aborted"]
    /\ UNCHANGED <<currentFile, scanProgress, scanResults, fuVars, envVars, hashVars,
                   localVars, logVars>>

\* The navigation logo is rendered, and clickable, in every view.
handleBackToScan ==
    /\ appState' = "upload"
    /\ UNCHANGED <<currentFile, scanProgress, scanResults, fuVars, envVars, hashVars, pc,
                   localVars, logVars>>

(***************************************************************************)
(* Specification                                                           *)
(***************************************************************************)

\* Every step invocation s takes when a promise it awaits settles.
ScanStep(s) ==
    \/ HashResolved(s)
    \/ HashRejected(s)
    \/ Delay1Done(s)
    \/ Delay2Done(s)
    \/ ReadTextDone(s)
    \/ Delay3Done(s)
    \/ Delay4Done(s)
    \/ Delay5Done(s)
    \/ Delay6Done(s)
    \/ \E resp \in Responses : FetchResolved(s, resp)
    \/ \E thrown \in FetchRejections : FetchRejected(s, thrown)
    \/ \E data \in Envelopes : JsonResolved(s, data)
    \/ \E thrown \in JsonRejections : JsonRejected(s, thrown)
    \/ Delay7Done(s)

Next ==
    \/ \E f \in Files : SelectFile(f)
    \/ clearSelection
    \/ handleNewScan
    \/ handleBackToScan
    \/ \E s \in Slots : ScanStep(s)

Spec == Init /\ [][Next]_vars

\* Awaited promises (timer, file read, fetch, body parse) settle: while some
\* invocation waits on one, some invocation's promise eventually settles.
FairSpec == Spec /\ WF_vars(\E s \in Slots : ScanStep(s))

(***************************************************************************)
(* Properties                                                              *)
(***************************************************************************)

Last(seq) == seq[Len(seq)]

\* The (stage, percentage) pairs of a sequence of ScanProgress values.
StagePairs(evs) == [i \in 1..Len(evs) |-> <<evs[i].stage, evs[i].progress>>]

Contains(str, sub) ==
    \E i \in 1..(Len(str) - Len(sub) + 1) : SubSeq(str, i, i + Len(sub) - 1) = sub

\* Invocation s has emitted the error stage.
Failed(s) == \E i \in 1..Len(events[s]) : events[s][i].stage = "error"

\* Invocation s has emitted the complete stage.
Completed(s) == \E i \in 1..Len(events[s]) : events[s][i].stage = "complete"

\* C1: a scan whose response was HTTP-success with success=true has emitted
\* exactly uploading 10, hashing 20, hash-check 30, heuristic 50, static 70,
\* behavioral 85, complete 100, in this order, each once.
C1_SuccessfulScanStages ==
    \A s \in Slots :
        (/\ response[s] # Null /\ response[s].ok
         /\ scanData[s] # Null /\ scanData[s].success)
        => StagePairs(events[s]) =
              << <<"uploading", 10>>, <<"hashing", 20>>, <<"hash-check", 30>>,
                 <<"heuristic", 50>>, <<"static", 70>>, <<"behavioral", 85>>,
                 <<"complete", 100>> >>

C1_Witness ==
    \E s \in Slots :
        pc[s] = "done" /\ scanData[s].success /\ Len(events[s]) = 7

\* C2: a scan that failed has emitted exactly one error event, as its last
\* event, with percentage 0 and a non-empty message, whatever was thrown.
C2_FailureYieldsOneNonEmptyFailedEvent ==
    \A s \in Slots :
        Failed(s) =>
            /\ Cardinality({i \in 1..Len(events[s]) : events[s][i].stage = "error"}) = 1
            /\ Last(events[s]).stage = "error"
            /\ Last(events[s]).progress = 0
            /\ Last(events[s]).message # ""

\* C3: with the URL or the key missing or equal to its placeholder, no scan
\* ever calls fetch, and a scan that got past the sixth delay has failed with
\* a message that mentions configuration.
C3_MissingConfigNoNetwork ==
    (\/ supabaseUrl \in {"", "https://your-project-ref.supabase.co"}
     \/ supabaseAnonKey \in {"", "your-anon-key-here"})
    => \A s \in Slots :
          /\ requests[s] = <<>>
          /\ pc[s] \in {"idle", "hashing", "hashFailed", "delay1", "delay2", "readText",
                        "delay3", "delay4", "delay5", "delay6", "failed"}
          /\ pc[s] = "failed" =>
                /\ Last(events[s]).stage = "error"
                /\ Contains(Last(events[s]).message, "configuration")

C3_Witness ==
    /\ supabaseUrl = "https://your-project-ref.supabase.co"
    /\ supabaseAnonKey = "anon-key"
    /\ \E s \in Slots : pc[s] = "failed" /\ requests[s] = <<>>

\* C4: a scan whose response had a non-success status has failed with the
\* message "Scan failed: <statusText>" and stored no record; no scan both
\* emits the error stage and stores a record or leaves the results view set.
C4_HttpErrorFailsWithoutRecord ==
    \A s \in Slots :
        /\ (response[s] # Null /\ ~response[s].ok) =>
                /\ pc[s] = "failed"
                /\ Last(events[s]) =
                      [stage |-> "error", progress |-> 0,
                       message |-> "Scan failed: " \o response[s].statusText]
                /\ scanData[s] = Null
        /\ Failed(s) => (stored[s] = <<>> /\ pc[s] = "failed")
        /\ stored[s] # <<>> => ~Failed(s)

C4_Witness ==
    \E s \in Slots :
        /\ response[s] # Null
        /\ response[s].statusText = "Internal Server Error"
        /\ pc[s] = "failed"

\* C5: a scan whose HTTP-success response parsed to an envelope with
\* success=false has failed; its message is the envelope's error when that is
\* present and non-empty, "Scan failed" otherwise; it never emits complete.
C5_EnvelopeFailureMessage ==
    \A s \in Slots :
        (scanData[s] # Null /\ ~scanData[s].success) =>
            /\ pc[s] = "failed"
            /\ Last(events[s]).stage = "error"
            /\ Last(events[s]).progress = 0
            /\ Last(events[s]).message =
                  (IF scanData[s].hasError /\ scanData[s].error # ""
                   THEN scanData[s].error ELSE "Scan failed")
            /\ Last(events[s]).message # ""
            /\ ~Completed(s)
            /\ stored[s] = <<>>

C5_Witness ==
    \E s, t \in Slots :
        /\ scanData[s] # Null /\ scanData[s].error = "bad request"
        /\ Last(events[s]).message = "bad request"
        /\ scanData[t] # Null /\ ~scanData[t].success /\ scanData[t].error = ""
        /\ pc[t] = "failed"

\* performScan invocation s has been entered and has not returned.
Running(s) ==
    pc[s] \in {"delay1", "delay2", "readText", "delay3", "delay4", "delay5", "delay6",
              "fetch", "json", "delay7"}

\* C6: at most one performScan invocation is in flight in any reachable state.
C6_AtMostOneScanInFlight ==
    Cardinality({s \in Slots : Running(s)}) <= 1

StageOrder ==
    <<"uploading", "hashing", "hash-check", "heuristic", "static", "behavioral",
      "complete">>

\* Position of a stage in the display order; the error stage has none.
StageIndex(stage) ==
    IF stage = "error" THEN 0 ELSE CHOOSE i \in 1..Len(StageOrder) : StageOrder[i] = stage

\* Invocation s has emitted a stage and not yet a terminal one.
MidScan(s) == events[s] # <<>> /\ Last(events[s]).stage \notin {"complete", "error"}

\* C7: while a scan is between its first and its terminal event, every change
\* of the displayed scanProgress moves to a later stage with a percentage in
\* 0..100 that is not lower, or is the escape to error with percentage 0.
C7_ObservedProgressForwardOnly ==
    [][(\E s \in Slots : MidScan(s)) /\ scanProgress' # scanProgress
        => \/ scanProgress'.stage = "error" /\ scanProgress'.progress = 0
           \/ /\ StageIndex(scanProgress'.stage) > StageIndex(scanProgress.stage)
              /\ scanProgress'.progress >= scanProgress.progress
              /\ scanProgress'.progress \in 0..100]_vars

\* C8 as stated: once scanResults holds a record it never changes.
C8_RecordNeverReplacedOrCleared ==
    [][scanResults # Null => scanResults' = scanResults]_vars

\* C8 as amended: every scan stores at most one record, only after it emitted
\* complete, built from its own file and envelope; scanResults changes only
\* when a scan stores its record or when handleNewScan resets it to null
\* together with currentFile, scanProgress and the view.
C8_RecordStoredOncePerScan ==
    /\ [](\A s \in Slots :
            /\ Len(stored[s]) <= 1
            /\ stored[s] # <<>> =>
                  /\ pc[s] = "done"
                  /\ Completed(s)
                  /\ stored[s][1] =
                        [scanId |-> scanData[s].scanId,
                         fileName |-> file[s].name,
                         fileSize |-> file[s].size,
                         sha256Hash |-> fileUpload[s].sha256Hash,
                         result |-> scanData[s].result])
    /\ [][scanResults' # scanResults
           => \/ /\ scanResults' = Null
                 /\ appState = "results" /\ appState' = "upload"
                 /\ currentFile' = Null
                 /\ scanProgress' = InitialProgress
                 /\ stored' = stored
              \/ \E s \in Slots :
                    /\ pc[s] = "delay7" /\ pc'[s] = "done"
                    /\ stored[s] = <<>> /\ stored'[s] = <<scanResults'>>
                    /\ appState' = "results"]_vars

\* A record that a later scan's record has replaced.
C8_Witness ==
    \E s \in Slots :
        /\ stored[s] # <<>>
        /\ scanResults # Null
        /\ scanResults # stored[s][1]

\* C9: every scan that has emitted its first stage eventually emits complete
\* or error, whatever the user does meanwhile: from some point on no scan is
\* between its first and its terminal event, and none is still being hashed.
C9_EveryScanReachesTerminal ==
    <>[](\A s \in Slots : ~MidScan(s) /\ pc[s] # "hashing")

\* A scan that ran to its end although the user left the progress view.
C9_Witness ==
    \E s, t \in Slots :
        /\ s # t
        /\ Completed(s) /\ pc[s] = "done"
        /\ Failed(t)
        /\ appState = "upload"

\* C10: a scan hands at most one request to fetch, and once that request has
\* been answered or has failed the scan never issues another one: a failure
\* leads straight to the failed state.
C10_NoRetry ==
    /\ [](\A s \in Slots :
            /\ Len(requests[s]) <= 1
            /\ pc[s] \in {"fetch", "json", "delay7", "done"} => Len(requests[s]) = 1)
    /\ [][\A s \in Slots :
            pc[s] \in {"fetch", "json"} =>
                /\ requests'[s] = requests[s]
                /\ pc'[s] \in {pc[s], "json", "delay7", "failed"}
                /\ (events'[s] # events[s] /\ ~Completed(s)')  => pc'[s] = "failed"]_vars

\* A scan that failed after its single request.
C10_Witness ==
    \E s \in Slots : pc[s] = "failed" /\ Len(requests[s]) = 1 /\ response[s] = Null

\* C11: for a file whose text read rejects, the scan goes on: its third event
\* is hash-check, the request it sends has fileContent = "", an error event
\* can only come after behavioral, and a successful response completes it.
C11_SamplingFailureNotFatal ==
    \A s \in Slots :
        (fileUpload[s] # Null /\ ~fileUpload[s].file.textReadable) =>
            /\ Len(events[s]) >= 3 => events[s][3].stage = "hash-check"
            /\ requests[s] # <<>> => requests[s][1].fileContent = ""
            /\ Failed(s) =>
                  /\ Len(events[s]) = 7
                  /\ events[s][6].stage = "behavioral"
            /\ (response[s] # Null /\ response[s].ok
                /\ scanData[s] # Null /\ scanData[s].success)
               => (Completed(s) /\ ~Failed(s) /\ Len(events[s]) = 7)

C11_Witness ==
    \E s \in Slots :
        /\ pc[s] = "done"
        /\ ~fileUpload[s].file.textReadable
        /\ requests[s][1].fileContent = ""
        /\ Completed(s)

C13_RemoteCallOnlyAtBehavioral ==
    /\ [](\A s \in Slots :
            /\ requests[s] # <<>> =>
                  /\ Len(events[s]) \in {6, 7}
                  /\ StagePairs(SubSeq(events[s], 1, 6)) =
                        << <<"uploading", 10>>, <<"hashing", 20>>, <<"hash-check", 30>>,
                           <<"heuristic", 50>>, <<"static", 70>>, <<"behavioral", 85>> >>
            /\ Completed(s) =>
                  /\ Len(requests[s]) = 1
                  /\ response[s] # Null /\ response[s].ok
                  /\ scanData[s] # Null /\ scanData[s].success
                  /\ Last(events[s]) = CompleteEvent)
    /\ [][\A s \in Slots :
            /\ requests'[s] # requests[s] =>
                  /\ Len(events[s]) = 6
                  /\ Last(events[s]) = BehavioralEvent
                  /\ events'[s] = events[s]
            /\ (~Completed(s) /\ Completed(s)') =>
                  /\ pc[s] = "json"
                  /\ response[s].ok
                  /\ scanData'[s].success]_vars

C13_Witness ==
    \E s \in Slots :
        /\ Completed(s)
        /\ Len(requests[s]) = 1
        /\ events[s][6] = BehavioralEvent

\* C14 as stated: at every one of the six non-terminal stages the failed
\* event can be the next event: whenever a scan that has emitted a stage event
\* is about to emit its next event, the error event is a possible next event.
C14_FailedReachableFromEveryStage ==
    \A s \in Slots :
        (MidScan(s) /\ ENABLED (ScanStep(s) /\ events'[s] # events[s]))
            => ENABLED (ScanStep(s) /\ Failed(s)')

\* C14 as amended: the failed event is reachable from the behavioral stage
\* and from no other: every error event is the seventh event of its scan and
\* directly follows behavioral, and a scan waiting on the configuration check
\* with an invalid configuration, on fetch or on response.json() can fail in
\* its next step.
C14_FailedOnlyAfterBehavioral ==
    \A s \in Slots :
        /\ \A i \in 1..Len(events[s]) :
              events[s][i].stage = "error" =>
                  /\ i = 7
                  /\ Len(events[s]) = 7
                  /\ events[s][6] = BehavioralEvent
        /\ (\/ pc[s] \in {"fetch", "json"}
            \/ pc[s] = "delay6" /\ ConfigInvalid(supabaseUrl, supabaseAnonKey))
           => /\ Last(events[s]) = BehavioralEvent
              /\ ENABLED (ScanStep(s) /\ Failed(s)')

C14_Witness ==
    \E s \in Slots :
        /\ pc[s] = "failed"
        /\ Len(events[s]) = 7
        /\ events[s][6] = BehavioralEvent
        /\ events[s][7].stage = "error"

\* C15: every record built has the fingerprint calculateSHA256 gave for the
\* submitted file, which is also the sha256Hash of the scan's request, and
\* the file's own name and size, whatever identity the response echoes.
C15_RecordFingerprintIsLocal ==
    /\ \A s \in Slots :
          \A i \in 1..Len(stored[s]) :
              /\ stored[s][i].sha256Hash = calculateSHA256(file[s])
              /\ stored[s][i].sha256Hash = fileUpload[s].sha256Hash
              /\ stored[s][i].sha256Hash = requests[s][1].sha256Hash
              /\ stored[s][i].fileName = file[s].name
              /\ stored[s][i].fileSize = file[s].size
              /\ requests[s][1].fileName = file[s].name
              /\ requests[s][1].fileSize = file[s].size
    /\ scanResults # Null =>
          \E s \in Slots : stored[s] # <<>> /\ scanResults = stored[s][1]

C15_Witness ==
    \E s \in Slots :
        /\ stored[s] # <<>>
        /\ scanData[s].sha256Hash # stored[s][1].sha256Hash
        /\ scanData[s].fileName # stored[s][1].fileName
        /\ stored[s][1].sha256Hash = calculateSHA256(file[s])

LowerHex == {HexDigits[v] : v \in 1..16}

HexValue(ch) == CHOOSE v \in 0..15 : HexDigits[v + 1] = ch

C17_ConcurrentScansIndependent ==
    /\ []((appState = "results" /\ scanResults # Null) =>
            /\ currentFile # Null
            /\ scanResults.fileName = currentFile.file.name
            /\ scanResults.sha256Hash = currentFile.sha256Hash)
    /\ [][\A s \in Slots :
            (fileUpload[s] # Null /\ currentFile # Null
             /\ (events'[s] # events[s] \/ stored'[s] # stored[s]))
                => currentFile = fileUpload[s]]_vars

\* C18: the results view always has a record to show; the view is entered,
\* or its record replaced, only by the last step of a scan that has emitted
\* complete; and the record is cleared only in a step that leaves the results
\* view for the upload view.
C18_ResultsViewHasRecord ==
    /\ [](appState = "results" => scanResults # Null)
    /\ [][(appState' = "results"
           /\ (appState # "results" \/ scanResults' # scanResults)) =>
              \E s \in Slots :
                  /\ pc[s] = "delay7" /\ pc'[s] = "done"
                  /\ Completed(s)
                  /\ scanResults' = CompleteScanData(s)]_vars
    /\ [][(scanResults # Null /\ scanResults' = Null) =>
              (appState = "results" /\ appState' = "upload")]_vars

C18_Witness ==
    \E s, q \in Slots :
        /\ appState = "results"
        /\ scanResults # Null
        /\ pc[s] = "done"
        /\ pc[q] = "failed"
        /\ stored[q] = <<>>

\* C19: a file larger than 104857600 bytes is never handed to calculateSHA256
\* or to a scan; the step that refuses it records the size error and changes
\* nothing else: no selected file, no hashing, no App state, no progress
\* event, no request; a file of exactly 104857600 bytes can be selected
\* whenever the dropzone is shown, and a larger one never.
C19_OversizeRejectedAtIntake ==
    /\ [](/\ \A s \in Slots : file[s] # Null => file[s].size <= 104857600
          /\ selectedFile # Null => selectedFile.size <= 104857600
          /\ error = validateFile(HugeFile) => (selectedFile = Null /\ ~isHashing)
          /\ validateFile(BinaryFile) = "" /\ BinaryFile.size = 104857600
          /\ validateFile(TextFile) = ""
          /\ validateFile(HugeFile) # ""
          /\ (appState = "upload" /\ selectedFile = Null
              /\ \E s \in Slots : pc[s] = "idle") =>
                /\ ENABLED (SelectFile(BinaryFile) /\ selectedFile' = BinaryFile)
                /\ ~ENABLED (SelectFile(HugeFile) /\ selectedFile' # Null)
                /\ ENABLED (SelectFile(HugeFile) /\ error' # ""))
    /\ [][(error' # error /\ error' = validateFile(HugeFile)) =>
              UNCHANGED <<appVars, selectedFile, isHashing, fuOwner, pc, localVars,
                          logVars>>]_vars

C19_Witness ==
    /\ error = "File size exceeds the maximum limit of 100 MB"
    /\ selectedFile = Null
    /\ \E s \in Slots :
          /\ file[s] # Null
          /\ file[s].size = MAX_FILE_SIZE
          /\ events[s] # <<>>
    /\ \E s \in Slots : pc[s] = "idle"

====
